---- MODULE Spec2Model ----
(***************************************************************************)
(* eeprom-fs (src/eeprom-fs/eeprom-fs.c): a FAT-like file system on a      *)
(* byte-addressed EEPROM.                                                  *)
(*                                                                         *)
(* The medium is modelled as a flat array of cells, eeprom[addr], and      *)
(* every access goes through the address arithmetic of the source          *)
(* (get_block_pointer, the allocation-table offsets), so that an access    *)
(* through an out-of-range block number lands where the source makes it    *)
(* land.  One cell holds one scalar of the source (an lba_t, a size_t, a   *)
(* uint16_t or one fdata_t), so sizeof(lba_t) is 1 cell, a file_alloc_t is *)
(* 2 cells and fs_meta_t is 5 cells.  The geometry is scaled down          *)
(* (EEPROM_FS_SIZE, EEPROM_FS_BLOCK_SIZE, EEPROM_FS_MAX_FILES,             *)
(* EEPROM_FS_MAX_BLOCKS_PER_FILE): 4 blocks of 2 data cells, 2 file names,  *)
(* at most 2 blocks per file.                                              *)
(*                                                                         *)
(* The application owns one file_handle_t variable, fh, as main() of       *)
(* src/example.c does; an open call overwrites it.                         *)
(***************************************************************************)
EXTENDS Integers, Sequences, FiniteSets, TLC

\* ---------------------------------------------------------------- geometry
EEPROM_FS_START == 0
EEPROM_FS_SIZE == 23
EEPROM_FS_BLOCK_SIZE == 3
EEPROM_FS_MAX_BLOCKS_PER_FILE == 2
EEPROM_FS_MAX_FILES == 2
EEPROM_FS_META_OFFSET == 0

\* sizes in cells of lba_t, file_alloc_t {filesize, data_block} and fs_meta_t
SizeofLba == 1
SizeofFileAlloc == 2
SizeofMeta == 5

EEPROM_FS_ALLOC_TABLE_OFFSET == SizeofMeta
EEPROM_FS_DATA_OFFSET ==
    EEPROM_FS_ALLOC_TABLE_OFFSET + (EEPROM_FS_MAX_FILES + 1) * SizeofFileAlloc
EEPROM_FS_NUM_BLOCKS ==
    (EEPROM_FS_SIZE - EEPROM_FS_DATA_OFFSET) \div EEPROM_FS_BLOCK_SIZE
EEPROM_FS_BLOCK_DATA_SIZE == EEPROM_FS_BLOCK_SIZE - SizeofLba

NULL_PTR == 0 - 1

\* size_t and uint16_t are 16 bits wide on the AVR target
SizeMod == 65536

\* ------------------------------------------------------------------ bounds
\* longest payload handed to write()
MaxLen == 6
\* payloads are <<10*t + 1, 10*t + 2, ...>> for a tag t in 1..NumTags
NumTags == 2
\* external file names are drawn from 0..MaxName
MaxName == 3
\* API calls in a behaviour of Spec
MaxOps == 4
\* API calls in a behaviour of SpecSeq, and its longest payload
MaxSeqOps == 6
MaxSeqLen == 4
\* calls, power losses included, in a behaviour of SpecCrash
MaxCrashOps == 3
\* API calls in a behaviour of SpecOne
MaxOneOps == 8
\* calls, power losses included, in a behaviour of SpecPower
MaxPowerOps == 7
\* calls, restarts included, in a behaviour of SpecTwo
MaxTwoOps == 8

\* ------------------------------------------------------------------ values
Files == 0 .. (EEPROM_FS_MAX_FILES - 1)
Entries == 0 .. EEPROM_FS_MAX_FILES
Blocks == 0 .. (EEPROM_FS_NUM_BLOCKS - 1)
Addr == 0 .. (EEPROM_FS_SIZE - 1)

\* an erased EEPROM cell reads 0xFF
Erased == 255
\* what an uninitialised stack byte may hold
GarbageBytes == {0, Erased}
\* a buffer position read() has not written
Unset == 0 - 1
\* result of a chain walk that never ends
Hang == 0 - 2

Payload(t, n) == [i \in 1 .. n |-> 10 * t + i]

Min(a, b) == IF a < b THEN a ELSE b

\* C remainder: the sign follows the dividend
CRem(a, b) == IF a >= 0 THEN a % b ELSE 0 - ((0 - a) % b)

ValidBlock(b) == b >= 0 /\ b < EEPROM_FS_NUM_BLOCKS

\* ------------------------------------------------------------ driver, layout
\* eeprom_write_block / eeprom_update_block: cells is a sequence
EepromWrite(mem, addr, cells) ==
    [a \in Addr |->
        IF a >= addr /\ a < addr + Len(cells) THEN cells[a - addr + 1] ELSE mem[a]]

EepromUpdate(mem, addr, cells) == EepromWrite(mem, addr, cells)

\* the cells eeprom_write_block programs: every cell of the range
WriteWritten(mem, addr, cells) == addr .. (addr + Len(cells) - 1)

\* the cells eeprom_update_block programs: those whose stored value differs
UpdateWritten(mem, addr, cells) ==
    {a \in addr .. (addr + Len(cells) - 1) : mem[a] # cells[a - addr + 1]}

EepromRead(mem, addr, n) == [i \in 1 .. n |-> mem[addr + i - 1]]

get_block_pointer(block) ==
    EEPROM_FS_START + EEPROM_FS_DATA_OFFSET
        + CRem(block * EEPROM_FS_BLOCK_SIZE, EEPROM_FS_SIZE)

AllocOffset(i) == EEPROM_FS_START + EEPROM_FS_ALLOC_TABLE_OFFSET + i * SizeofFileAlloc

\* the next_block field and the data of a block as stored
NextOf(mem, b) == mem[get_block_pointer(b)]
DataOf(mem, b) == EepromRead(mem, get_block_pointer(b) + SizeofLba, EEPROM_FS_BLOCK_DATA_SIZE)

\* a file_alloc_t as the cells it occupies, and back
AllocCells(e) == <<e.filesize, e.data_block>>
StoredAlloc(mem, i) ==
    [filesize |-> mem[AllocOffset(i)], data_block |-> mem[AllocOffset(i) + 1]]
StoredTable(mem) == [i \in Entries |-> StoredAlloc(mem, i)]

RECURSIVE TableCells(_, _)
TableCells(tab, i) ==
    IF i > EEPROM_FS_MAX_FILES THEN <<>> ELSE AllocCells(tab[i]) \o TableCells(tab, i + 1)

CompiledMeta ==
    <<EEPROM_FS_BLOCK_SIZE, EEPROM_FS_START, EEPROM_FS_SIZE,
      EEPROM_FS_MAX_FILES, EEPROM_FS_MAX_BLOCKS_PER_FILE>>

\* ------------------------------------------------------------ block pool ops
relink(mem, block, target) ==
    IF ValidBlock(block) /\ target >= NULL_PTR /\ target < EEPROM_FS_NUM_BLOCKS
    THEN EepromWrite(mem, get_block_pointer(block), <<target>>)
    ELSE mem

RECURSIVE WalkLast(_, _, _)
WalkLast(mem, block, fuel) ==
    IF NextOf(mem, block) = NULL_PTR THEN block
    ELSE IF fuel = 0 THEN Hang
    ELSE WalkLast(mem, NextOf(mem, block), fuel - 1)

\* the last block of the chain, NULL_PTR for an invalid block, Hang when the
\* chain is a cycle and the do-while never ends
last_block_in_chain(mem, block) ==
    IF ValidBlock(block) THEN WalkLast(mem, block, EEPROM_FS_NUM_BLOCKS) ELSE NULL_PTR

\* ------------------------------------------------------------------ format
\* format's loop with the quick branch deriving the link from the pointer
\* stored in the block instead of the loop index
RECURSIVE FormatBlocksStored(_, _, _)
FormatBlocksStored(mem, f, i) ==
    IF i >= EEPROM_FS_NUM_BLOCKS THEN mem
    ELSE FormatBlocksStored(
            IF f = "FORMAT_FULL"
            THEN EepromUpdate(mem, get_block_pointer(i),
                     <<i - 1>> \o [j \in 1 .. EEPROM_FS_BLOCK_DATA_SIZE |-> 0])
            ELSE relink(mem, i, NextOf(mem, i) - 1),
            f, i + 1)

RECURSIVE FormatBlocks(_, _, _)
FormatBlocks(mem, f, i) ==
    IF i >= EEPROM_FS_NUM_BLOCKS THEN mem
    ELSE FormatBlocks(
            IF f = "FORMAT_FULL"
            THEN EepromUpdate(mem, get_block_pointer(i),
                     <<i - 1>> \o [j \in 1 .. EEPROM_FS_BLOCK_DATA_SIZE |-> 0])
            ELSE relink(mem, i, i - 1),
            f, i + 1)

wipe_eeprom(mem) == [a \in Addr |-> 0]

\* the table of format with the free head one past the last block
FormattedTableOnePast ==
    [i \in Entries |->
        IF i < EEPROM_FS_MAX_FILES
        THEN [filesize |-> 0, data_block |-> NULL_PTR]
        ELSE [filesize |-> 0, data_block |-> EEPROM_FS_NUM_BLOCKS]]

FormattedTable ==
    [i \in Entries |->
        IF i < EEPROM_FS_MAX_FILES
        THEN [filesize |-> 0, data_block |-> NULL_PTR]
        ELSE [filesize |-> 0, data_block |-> EEPROM_FS_NUM_BLOCKS - 1]]

\* the medium after format_eepromfs(f); the cached table becomes FormattedTable
format_eepromfs(mem, f) ==
    LET m0 == IF f = "FORMAT_WIPE" THEN wipe_eeprom(mem) ELSE mem
        m1 == FormatBlocks(m0, f, 0)
        m2 == EepromUpdate(m1, EEPROM_FS_START + EEPROM_FS_ALLOC_TABLE_OFFSET,
                           TableCells(FormattedTable, 0))
    IN  EepromWrite(m2, EEPROM_FS_START + EEPROM_FS_META_OFFSET, CompiledMeta)

\* the medium after init_eepromfs(); the cached table becomes StoredTable of it
init_eepromfs(mem) ==
    IF EepromRead(mem, EEPROM_FS_START + EEPROM_FS_META_OFFSET, SizeofMeta) # CompiledMeta
    THEN format_eepromfs(mem, "FORMAT_QUICK")
    ELSE mem

\* -------------------------------------------------------------------- read
\* cells of a buffer that holds the longest chain read() can walk
BufLenOf == EEPROM_FS_NUM_BLOCKS * EEPROM_FS_BLOCK_DATA_SIZE

\* the do-while of read(): iteration i reads block b into out
RECURSIVE ReadLoop(_, _, _, _, _, _)
ReadLoop(mem, filesize, b, i, num_bytes, out) ==
    LET nb == IF (i + 1) * EEPROM_FS_BLOCK_DATA_SIZE > filesize
              THEN filesize % EEPROM_FS_BLOCK_DATA_SIZE
              ELSE num_bytes
        data == DataOf(mem, b)
        out1 == [k \in DOMAIN out |->
                    IF /\ k >= i * EEPROM_FS_BLOCK_DATA_SIZE
                       /\ k < i * EEPROM_FS_BLOCK_DATA_SIZE + nb
                    THEN data[k - i * EEPROM_FS_BLOCK_DATA_SIZE + 1]
                    ELSE out[k]]
    IN  IF NextOf(mem, b) = NULL_PTR THEN [hang |-> FALSE, buf |-> out1]
        ELSE IF i + 1 >= EEPROM_FS_NUM_BLOCKS THEN [hang |-> TRUE, buf |-> out]
        ELSE ReadLoop(mem, filesize, NextOf(mem, b), i + 1, nb, out1)

\* read(fh, buf): out is the buffer as it was; the result is the buffer after
read(mem, h, out) ==
    IF ValidBlock(h.first_block)
    THEN ReadLoop(mem, h.filesize, h.first_block, 0, EEPROM_FS_BLOCK_DATA_SIZE, out)
    ELSE [hang |-> FALSE, buf |-> out]

\* ------------------------------------------------------------------- write
\* data[k] of the C array (k from 0); past the end it is whatever lies there
DataAt(data, k, g) == IF k < Len(data) THEN data[k + 1] ELSE g

RECURSIVE IterNext(_, _, _)
IterNext(mem, b, k) == IF k = 0 THEN b ELSE IterNext(mem, NextOf(mem, b), k - 1)

RECURSIVE CycleLenFrom(_, _, _, _)
CycleLenFrom(mem, start, b, k) ==
    IF NextOf(mem, b) = start THEN k ELSE CycleLenFrom(mem, start, NextOf(mem, b), k + 1)

\* length of the cycle a chain that never ends runs into
CycleLen(mem, head) ==
    CycleLenFrom(mem, IterNext(mem, head, EEPROM_FS_NUM_BLOCKS),
                 IterNext(mem, head, EEPROM_FS_NUM_BLOCKS), 1)

\* write_block_data that also mirrors the advanced head to the persisted
\* sentinel entry
write_block_data_head_stored(mem, head, img) ==
    IF ValidBlock(head)
    THEN [mem |-> EepromUpdate(
                      EepromWrite(mem, get_block_pointer(head) + SizeofLba, img),
                      AllocOffset(EEPROM_FS_MAX_FILES),
                      AllocCells([filesize |-> 0, data_block |-> NextOf(mem, head)])),
          head |-> NextOf(mem, head), ret |-> head]
    ELSE [mem |-> mem, head |-> head, ret |-> NULL_PTR]

\* write_block_data that stores the data and leaves the cached head alone
write_block_data_head_kept(mem, head, img) ==
    IF ValidBlock(head)
    THEN [mem |-> EepromWrite(mem, get_block_pointer(head) + SizeofLba, img),
          head |-> head, ret |-> head]
    ELSE [mem |-> mem, head |-> head, ret |-> NULL_PTR]

\* write_block_data(data): the block at the cached free head takes the data,
\* the cached head advances
write_block_data(mem, head, img) ==
    IF ValidBlock(head)
    THEN [mem |-> EepromWrite(mem, get_block_pointer(head) + SizeofLba, img),
          head |-> NextOf(mem, head), ret |-> head]
    ELSE [mem |-> mem, head |-> head, ret |-> NULL_PTR]

\* the for loop of write(): iterations i .. n-1; img is block.data as the
\* previous iteration left it
RECURSIVE WriteLoop(_, _, _, _, _, _, _, _, _)
WriteLoop(mem, head, data, g, i, n, img, num_bytes, last) ==
    IF i >= n THEN [mem |-> mem, head |-> head, last |-> last]
    ELSE IF ~ValidBlock(head) THEN [mem |-> mem, head |-> head, last |-> NULL_PTR]
    ELSE
      LET nb == IF (i + 1) * EEPROM_FS_BLOCK_DATA_SIZE > Len(data)
                THEN Len(data) % EEPROM_FS_BLOCK_DATA_SIZE
                ELSE num_bytes
          img1 == [j \in 1 .. EEPROM_FS_BLOCK_DATA_SIZE |->
                      IF j <= nb
                      THEN DataAt(data, i * EEPROM_FS_BLOCK_DATA_SIZE + j - 1, g)
                      ELSE img[j]]
          w == write_block_data(mem, head, img1)
      IN  WriteLoop(w.mem, w.head, data, g, i + 1, n, img1, nb, w.ret)

\* The loop runs num_blocks times.  It stops changing anything once the free
\* chain is exhausted; on a free chain that is a cycle of length c it keeps
\* going round, and from iteration Len(data) \div BLOCK_DATA_SIZE + 1 on every
\* iteration writes the same image, so num_blocks iterations leave the state
\* that n iterations leave for any n congruent to num_blocks modulo c that is
\* at least that many iterations plus the chain's length.
LoopCount(mem, head, data, num_blocks) ==
    LET base == Len(data) \div EEPROM_FS_BLOCK_DATA_SIZE + 1 + 2 * EEPROM_FS_NUM_BLOCKS
    IN  IF num_blocks <= base THEN num_blocks
        ELSE IF last_block_in_chain(mem, head) # Hang THEN base
        ELSE base + ((num_blocks - base) % CycleLen(mem, head))

\* write(fh, data, size): g is what uninitialised and out-of-bounds bytes hold
write(mem, tab, h, payload, g) ==
    IF h.type \notin {"FH_WRITE", "FH_APPEND"}
    THEN [hang |-> FALSE, mem |-> mem, tab |-> tab, fh |-> h]
    ELSE
      LET merge == h.type = "FH_APPEND" /\ h.filesize % EEPROM_FS_BLOCK_DATA_SIZE > 0
          overflow == h.filesize % EEPROM_FS_BLOCK_DATA_SIZE
          lastb == last_block_in_chain(mem, tab[h.filename].data_block)
          rd == read(mem, [h EXCEPT !.first_block = lastb, !.filesize = overflow],
                     [k \in 0 .. (BufLenOf - 1) |-> g])
          data == IF merge
                  THEN [k \in 1 .. overflow |-> rd.buf[k - 1]] \o payload
                  ELSE payload
          size == Len(data)
          blocks_in_use == tab[h.filename].filesize \div EEPROM_FS_BLOCK_DATA_SIZE
          truncated == blocks_in_use + size \div EEPROM_FS_BLOCK_DATA_SIZE
                          > EEPROM_FS_MAX_BLOCKS_PER_FILE
          num_blocks == IF truncated
                        THEN (EEPROM_FS_MAX_BLOCKS_PER_FILE - blocks_in_use) % SizeMod
                        ELSE size \div EEPROM_FS_BLOCK_DATA_SIZE + 1
          head == tab[EEPROM_FS_MAX_FILES].data_block
          lp == WriteLoop(mem, head, data, g, 0, LoopCount(mem, head, data, num_blocks),
                          [j \in 1 .. EEPROM_FS_BLOCK_DATA_SIZE |-> g],
                          EEPROM_FS_BLOCK_DATA_SIZE, NULL_PTR)
          cap == (num_blocks * EEPROM_FS_BLOCK_DATA_SIZE) % SizeMod
      IN  IF merge /\ lastb = Hang
          THEN [hang |-> TRUE, mem |-> mem, tab |-> tab, fh |-> h]
          ELSE IF num_blocks > 0
          THEN [hang |-> FALSE,
                mem |-> lp.mem,
                tab |-> [tab EXCEPT ![EEPROM_FS_MAX_FILES].data_block = lp.head],
                fh |-> [h EXCEPT !.first_block = head,
                                 !.last_block = lp.last,
                                 !.filesize = IF size > cap THEN cap ELSE size]]
          ELSE [hang |-> FALSE, mem |-> mem, tab |-> tab, fh |-> h]

\* the error sink of write(): "File too large - write truncated"
WriteTruncated(mem, tab, h, payload) ==
    /\ h.type \in {"FH_WRITE", "FH_APPEND"}
    /\ LET overflow == IF h.type = "FH_APPEND"
                       THEN h.filesize % EEPROM_FS_BLOCK_DATA_SIZE ELSE 0
       IN  tab[h.filename].filesize \div EEPROM_FS_BLOCK_DATA_SIZE
             + (overflow + Len(payload)) \div EEPROM_FS_BLOCK_DATA_SIZE
             > EEPROM_FS_MAX_BLOCKS_PER_FILE

\* ------------------------------------------------------ link, unlink, close
link(mem, tab, h) ==
    IF ValidBlock(h.first_block)
    THEN LET filename == h.filename % EEPROM_FS_MAX_FILES
             tab1 == [tab EXCEPT ![filename] =
                         [filesize |-> h.filesize, data_block |-> h.first_block]]
             m1 == EepromUpdate(mem, AllocOffset(filename), AllocCells(tab1[filename]))
         IN  [mem |-> EepromUpdate(m1, AllocOffset(EEPROM_FS_MAX_FILES),
                                   AllocCells(tab1[EEPROM_FS_MAX_FILES])),
              tab |-> tab1]
    ELSE [mem |-> mem, tab |-> tab]

unlink(mem, tab, block) ==
    IF ValidBlock(block)
    THEN LET last_free == last_block_in_chain(mem, tab[EEPROM_FS_MAX_FILES].data_block)
         IN  IF last_free = Hang THEN [hang |-> TRUE, mem |-> mem]
             ELSE [hang |-> FALSE,
                   mem |-> EepromWrite(mem, get_block_pointer(last_free), <<block>>)]
    ELSE [hang |-> FALSE, mem |-> mem]

\* close(fh) up to, and without, the final relink(fh->last_block, NULL_PTR)
CloseBody(mem, tab, h) ==
    LET old == tab[h.filename]
        h1 == IF h.type = "FH_APPEND"
              THEN [h EXCEPT !.filesize = (h.filesize + old.filesize) % SizeMod]
              ELSE h
    IN  IF h.type = "FH_APPEND" /\ old.filesize > EEPROM_FS_BLOCK_DATA_SIZE
        THEN LET last == last_block_in_chain(mem, old.data_block)
             IN  IF last = Hang
                 THEN [hang |-> TRUE, mem |-> mem, tab |-> tab, fh |-> h]
                 ELSE [hang |-> FALSE, mem |-> relink(mem, last, h1.first_block),
                       tab |-> tab, fh |-> h1]
        ELSE IF h.type = "FH_APPEND"
        THEN LET u == IF old.filesize > 0
                      THEN unlink(mem, tab, old.data_block)
                      ELSE [hang |-> FALSE, mem |-> mem]
                 l == link(u.mem, tab, h1)
             IN  IF u.hang
                 THEN [hang |-> TRUE, mem |-> mem, tab |-> tab, fh |-> h]
                 ELSE [hang |-> FALSE, mem |-> l.mem, tab |-> l.tab, fh |-> h1]
        ELSE LET l == link(mem, tab, h)
             IN  [hang |-> FALSE, mem |-> l.mem, tab |-> l.tab, fh |-> h]

close(mem, tab, h) ==
    LET c == CloseBody(mem, tab, h)
    IN  IF c.hang THEN c
        ELSE [c EXCEPT !.mem = relink(c.mem, c.fh.last_block, NULL_PTR)]

\* the storage mutations of close(fh) in the order the code issues them, each
\* with the medium it leaves: "unlink" (the free tail's next is set to the old
\* chain), "append" (the old last block's next is set to the new run),
\* "entry" and "sentinel" (the two eeprom_update_block calls of link()) and
\* "terminate" (relink(fh->last_block, NULL_PTR)); refused calls issue nothing
CloseTrace(mem, tab, h) ==
    LET old == tab[h.filename]
        h1 == IF h.type = "FH_APPEND"
              THEN [h EXCEPT !.filesize = (h.filesize + old.filesize) % SizeMod]
              ELSE h
        filename == h1.filename % EEPROM_FS_MAX_FILES
        tab1 == [tab EXCEPT ![filename] =
                    [filesize |-> h1.filesize, data_block |-> h1.first_block]]
        LinkTrace(m) ==
            IF ValidBlock(h1.first_block)
            THEN LET m1 == EepromUpdate(m, AllocOffset(filename), AllocCells(tab1[filename]))
                 IN  <<[op |-> "entry", mem |-> m1],
                       [op |-> "sentinel",
                        mem |-> EepromUpdate(m1, AllocOffset(EEPROM_FS_MAX_FILES),
                                             AllocCells(tab1[EEPROM_FS_MAX_FILES]))]>>
            ELSE <<>>
        MemAfter(t, m) == IF t = <<>> THEN m ELSE t[Len(t)].mem
        body ==
            IF h.type = "FH_APPEND" /\ old.filesize > EEPROM_FS_BLOCK_DATA_SIZE
            THEN LET last == last_block_in_chain(mem, old.data_block)
                 IN  IF ValidBlock(last) /\ h1.first_block >= NULL_PTR
                           /\ h1.first_block < EEPROM_FS_NUM_BLOCKS
                     THEN <<[op |-> "append", mem |-> relink(mem, last, h1.first_block)]>>
                     ELSE <<>>
            ELSE IF h.type = "FH_APPEND"
            THEN LET u == IF old.filesize > 0 /\ ValidBlock(old.data_block)
                          THEN <<[op |-> "unlink",
                                  mem |-> unlink(mem, tab, old.data_block).mem]>>
                          ELSE <<>>
                 IN  u \o LinkTrace(MemAfter(u, mem))
            ELSE LinkTrace(mem)
    IN  IF close(mem, tab, h).hang THEN <<>>
        ELSE IF ValidBlock(h.last_block)
        THEN body \o <<[op |-> "terminate",
                        mem |-> relink(MemAfter(body, mem), h.last_block, NULL_PTR)]>>
        ELSE body

\* ------------------------------------------------------------------ delete
\* the wrap of a file name at the head of open_for_*() and delete()
FoldOpen(filename) ==
    IF filename > EEPROM_FS_MAX_FILES THEN filename % EEPROM_FS_MAX_FILES ELSE filename

FoldDelete(filename) == FoldOpen(filename) % EEPROM_FS_MAX_FILES

delete(mem, tab, name) ==
    LET filename == FoldDelete(name)
        u == unlink(mem, tab, tab[filename].data_block)
        tab1 == [tab EXCEPT ![filename] = [filesize |-> 0, data_block |-> NULL_PTR]]
    IN  IF u.hang THEN [hang |-> TRUE, mem |-> mem, tab |-> tab]
        ELSE [hang |-> FALSE,
              mem |-> EepromUpdate(u.mem, AllocOffset(filename), AllocCells(tab1[filename])),
              tab |-> tab1]

\* ------------------------------------------------ mirrors of the table
\* the cells of the allocation table on the medium
TableRegion ==
    AllocOffset(0) .. (AllocOffset(EEPROM_FS_MAX_FILES) + SizeofFileAlloc - 1)

\* the call of link() that close(h) makes, if any: the medium it finds and
\* the handle it is given
CloseLinkCall(mem, tab, h) ==
    LET old == tab[h.filename]
        h1 == IF h.type = "FH_APPEND"
              THEN [h EXCEPT !.filesize = (h.filesize + old.filesize) % SizeMod]
              ELSE h
    IN  IF h.type = "FH_APPEND" /\ old.filesize > EEPROM_FS_BLOCK_DATA_SIZE
        THEN [called |-> FALSE, mem |-> mem, fh |-> h1]
        ELSE IF h.type = "FH_APPEND" /\ old.filesize > 0
        THEN [called |-> TRUE, mem |-> unlink(mem, tab, old.data_block).mem, fh |-> h1]
        ELSE [called |-> TRUE, mem |-> mem, fh |-> h1]

\* the cells the two mirrors of link(h) program on medium mem
LinkWritten(mem, tab, h) ==
    IF ValidBlock(h.first_block)
    THEN LET filename == h.filename % EEPROM_FS_MAX_FILES
             tab1 == [tab EXCEPT ![filename] =
                         [filesize |-> h.filesize, data_block |-> h.first_block]]
             m1 == EepromUpdate(mem, AllocOffset(filename), AllocCells(tab1[filename]))
         IN  UpdateWritten(mem, AllocOffset(filename), AllocCells(tab1[filename]))
               \cup UpdateWritten(m1, AllocOffset(EEPROM_FS_MAX_FILES),
                                  AllocCells(tab1[EEPROM_FS_MAX_FILES]))
    ELSE {}

\* the medium delete(name) finds when it mirrors the cleared entry, and the
\* cells that mirror programs
DeleteMirrorMem(mem, tab, name) == unlink(mem, tab, tab[FoldDelete(name)].data_block).mem

DeleteWritten(mem, tab, name) ==
    UpdateWritten(DeleteMirrorMem(mem, tab, name), AllocOffset(FoldDelete(name)),
                  AllocCells([filesize |-> 0, data_block |-> NULL_PTR]))

\* the medium format_eepromfs(f) finds when it mirrors the table, and the
\* cells that mirror programs
FormatMirrorMem(mem, f) ==
    FormatBlocks(IF f = "FORMAT_WIPE" THEN wipe_eeprom(mem) ELSE mem, f, 0)

FormatWritten(mem, f) ==
    UpdateWritten(FormatMirrorMem(mem, f),
                  EEPROM_FS_START + EEPROM_FS_ALLOC_TABLE_OFFSET,
                  TableCells(FormattedTable, 0))

\* ------------------------------------------------------- chains, as sets
RECURSIVE ChainFrom(_, _, _)
\* the blocks met walking next_block from b, for at most fuel blocks
ChainFrom(mem, b, fuel) ==
    IF ~ValidBlock(b) \/ fuel = 0 THEN <<>>
    ELSE <<b>> \o ChainFrom(mem, NextOf(mem, b), fuel - 1)

ChainSeq(mem, b) == ChainFrom(mem, b, EEPROM_FS_NUM_BLOCKS)
ChainSet(mem, b) == {ChainSeq(mem, b)[i] : i \in 1 .. Len(ChainSeq(mem, b))}
\* the walk from b reaches NULL_PTR
Terminates(mem, b) == ~ValidBlock(b) \/ last_block_in_chain(mem, b) # Hang

FreeHead(tab) == tab[EEPROM_FS_MAX_FILES].data_block

\* -------------------------------------------------------------- error sink
OpenErrors(h) == IF h.first_block = NULL_PTR THEN {"FileNotFound"} ELSE {}

ReadErrors(h) == IF ValidBlock(h.first_block) THEN {} ELSE {"InvalidHandle"}

WriteErrors(mem, tab, h, payload, g) ==
    IF h.type \notin {"FH_WRITE", "FH_APPEND"} THEN {"WriteToReadOnly"}
    ELSE LET w == write(mem, tab, h, payload, g)
             overflow == IF h.type = "FH_APPEND"
                         THEN h.filesize % EEPROM_FS_BLOCK_DATA_SIZE ELSE 0
             blocks_in_use == tab[h.filename].filesize \div EEPROM_FS_BLOCK_DATA_SIZE
         IN  (IF WriteTruncated(mem, tab, h, payload) THEN {"Truncated"} ELSE {})
             \cup (IF WriteTruncated(mem, tab, h, payload)
                      /\ blocks_in_use = EEPROM_FS_MAX_BLOCKS_PER_FILE
                   THEN {"NoSpace"} ELSE {})
             \cup (IF overflow > 0 /\ ~ValidBlock(tab[h.filename].data_block)
                   THEN {"OutOfRangeBlock", "InvalidHandle"} ELSE {})
             \cup (IF ~w.hang /\ w.fh.last_block = NULL_PTR
                      /\ ~(WriteTruncated(mem, tab, h, payload)
                             /\ blocks_in_use = EEPROM_FS_MAX_BLOCKS_PER_FILE)
                   THEN {"OutOfRangeBlock"} ELSE {})

CloseErrors(mem, tab, h) ==
    LET old == tab[h.filename]
        appendLong == h.type = "FH_APPEND" /\ old.filesize > EEPROM_FS_BLOCK_DATA_SIZE
    IN  IF \/ ~ValidBlock(h.last_block)
           \/ (~appendLong /\ ~ValidBlock(h.first_block))
           \/ (appendLong /\ ~ValidBlock(old.data_block))
           \/ (h.type = "FH_APPEND" /\ ~appendLong /\ old.filesize > 0
                 /\ ~ValidBlock(old.data_block))
        THEN {"OutOfRangeBlock"} ELSE {}

DeleteErrors(tab, name) ==
    IF ValidBlock(tab[FoldDelete(name)].data_block) THEN {} ELSE {"OutOfRangeBlock"}

\* ------------------------------------------------------------------- state
VARIABLES
    eeprom,       \* the medium, one value per cell
    alloc_table,  \* the cached allocation table
    fh,           \* the application's file handle
    buf,          \* the buffer the last read() filled
    hung,         \* a chain walk of the last call never ends
    errs,         \* the error kinds the last call reported
    lastOp,       \* the last call, and the file name it was given or its handle holds
    scen,         \* the calls since the last open_for_write, while they follow
                  \* open_for_write; write; close; open_for_append; write; close
    clean,        \* every handle so far was written once and then closed
    session,      \* "open" from open_for_write/append to close, "none" outside,
                  \* "misuse" once a closed handle was written or closed
    steps         \* calls the application has yet to make

vars == <<eeprom, alloc_table, fh, buf, hung, errs, lastOp, scen, clean, session, steps>>

NoHandle ==
    [filename |-> 0, filesize |-> 0, type |-> "NONE",
     first_block |-> NULL_PTR, last_block |-> NULL_PTR]

EmptyBuf == [i \in 0 .. (BufLenOf - 1) |-> Unset]

BlankEeprom == [a \in Addr |-> Erased]

Op(op, name) == [op |-> op, name |-> name]

NoScen ==
    [stage |-> "none", name |-> 0, a |-> <<>>, b |-> <<>>,
     fresh |-> FALSE, room |-> FALSE, part |-> FALSE,
     sound |-> FALSE, werr |-> FALSE, coh |-> FALSE]

\* each LBA is reachable from exactly one chain root of the table
Partition(mem, tab) ==
    \A b \in Blocks :
        Cardinality({e \in Entries : b \in ChainSet(mem, tab[e].data_block)}) = 1

\* blocks a file of n cells occupies by the data model
BlocksFor(n) == (n + EEPROM_FS_BLOCK_DATA_SIZE - 1) \div EEPROM_FS_BLOCK_DATA_SIZE

\* I1-I5: the partition, and every present file's chain starts at a valid
\* block, ends in NULL_PTR and has ceil(filesize / BLOCK_DATA_SIZE) blocks
Sound(mem, tab) ==
    /\ Partition(mem, tab)
    /\ \A f \in Files :
          tab[f].data_block # NULL_PTR =>
              /\ ValidBlock(tab[f].data_block)
              /\ Terminates(mem, tab[f].data_block)
              /\ Len(ChainSeq(mem, tab[f].data_block)) = BlocksFor(tab[f].filesize)

\* the errors of a write that could not allocate what it needed
AllocErrors == {"OutOfRangeBlock", "NoSpace"}

Init ==
    /\ eeprom = init_eepromfs(BlankEeprom)
    /\ alloc_table = StoredTable(init_eepromfs(BlankEeprom))
    /\ fh = NoHandle
    /\ buf = EmptyBuf
    /\ hung = FALSE
    /\ errs = {}
    /\ lastOp = Op("init", 0)
    /\ scen = NoScen
    /\ clean = TRUE
    /\ session = "none"
    /\ steps = MaxOps

\* ------------------------------------------------------------------- opens
open_for_write(filename) ==
    [filename |-> FoldOpen(filename), filesize |-> 0, type |-> "FH_WRITE",
     first_block |-> NULL_PTR, last_block |-> NULL_PTR]

open_for_append(tab, filename) ==
    [filename |-> FoldOpen(filename), filesize |-> tab[FoldOpen(filename)].filesize,
     type |-> "FH_APPEND", first_block |-> NULL_PTR, last_block |-> NULL_PTR]

open_for_read(tab, filename) ==
    [filename |-> FoldOpen(filename), filesize |-> tab[FoldOpen(filename)].filesize,
     type |-> "FH_READ", first_block |-> tab[FoldOpen(filename)].data_block,
     last_block |-> NULL_PTR]

\* ------------------------------------------------------------ bookkeeping
\* a handle is open for writing and not yet closed
Pending == scen.stage \in {"ow", "w", "oa", "aw", "oa?", "aw?"}

\* ----------------------------------------------------------------- actions
OpenForWrite(n) ==
    /\ ~hung
    /\ steps > 0
    /\ steps' = steps - 1
    /\ session' = IF session = "misuse" THEN "misuse" ELSE "open"
    /\ fh' = open_for_write(n)
    /\ buf' = EmptyBuf
    /\ errs' = {}
    /\ lastOp' = Op("open_for_write", n)
    /\ scen' = [NoScen EXCEPT !.stage = "ow", !.name = n]
    /\ clean' = (clean /\ ~Pending)
    /\ UNCHANGED <<eeprom, alloc_table, hung>>

OpenForAppend(n) ==
    /\ ~hung
    /\ steps > 0
    /\ steps' = steps - 1
    /\ session' = IF session = "misuse" THEN "misuse" ELSE "open"
    /\ fh' = open_for_append(alloc_table, n)
    /\ buf' = EmptyBuf
    /\ errs' = {}
    /\ lastOp' = Op("open_for_append", n)
    /\ scen' = IF scen.stage = "wc" /\ scen.name = n
               THEN [scen EXCEPT !.stage = "oa"]
               ELSE [NoScen EXCEPT !.stage = "oa?", !.name = n]
    /\ clean' = (clean /\ ~Pending)
    /\ UNCHANGED <<eeprom, alloc_table, hung>>

OpenForRead(n) ==
    /\ ~hung
    /\ steps > 0
    /\ steps' = steps - 1
    /\ session' = IF session = "misuse" THEN "misuse" ELSE "none"
    /\ fh' = open_for_read(alloc_table, n)
    /\ buf' = EmptyBuf
    /\ errs' = OpenErrors(open_for_read(alloc_table, n))
    /\ lastOp' = Op("open_for_read", n)
    /\ scen' = IF scen.stage \in {"wc", "awc"} THEN scen ELSE NoScen
    /\ clean' = (clean /\ ~Pending)
    /\ UNCHANGED <<eeprom, alloc_table, hung>>

Write(p, g) ==
    /\ ~hung
    /\ steps > 0
    /\ steps' = steps - 1
    /\ session' = IF fh.type \in {"FH_WRITE", "FH_APPEND"} /\ session # "open"
                   THEN "misuse" ELSE session
    /\ fh.type # "NONE"
    /\ LET w == write(eeprom, alloc_table, fh, p, g)
       IN  /\ eeprom' = w.mem
           /\ alloc_table' = w.tab
           /\ fh' = w.fh
           /\ hung' = w.hang
    /\ buf' = EmptyBuf
    /\ errs' = WriteErrors(eeprom, alloc_table, fh, p, g)
    /\ lastOp' = Op("write", fh.filename)
    /\ scen' = IF scen.stage = "ow"
               THEN [scen EXCEPT !.stage = "w", !.a = p,
                        !.fresh = (alloc_table[FoldDelete(scen.name)]
                                     = [filesize |-> 0, data_block |-> NULL_PTR]),
                        !.room = (Len(ChainSeq(eeprom, FreeHead(alloc_table)))
                                     >= BlocksFor(Len(p))),
                        !.part = Partition(eeprom, alloc_table),
                        !.sound = Sound(eeprom, alloc_table),
                        !.werr = (WriteErrors(eeprom, alloc_table, fh, p, g)
                                    \cap AllocErrors # {}),
                        !.coh = (alloc_table = StoredTable(eeprom))]
               ELSE IF scen.stage = "oa"
               THEN [scen EXCEPT !.stage = "aw", !.b = p,
                        !.room = (scen.room
                                   /\ Len(ChainSeq(eeprom, FreeHead(alloc_table)))
                                        >= BlocksFor(Len(scen.a) + Len(p))),
                        !.sound = Sound(eeprom, alloc_table),
                        !.werr = (WriteErrors(eeprom, alloc_table, fh, p, g)
                                    \cap AllocErrors # {}),
                        !.coh = (alloc_table = StoredTable(eeprom))]
               ELSE IF scen.stage = "oa?"
               THEN [scen EXCEPT !.stage = "aw?"]
               ELSE NoScen
    /\ clean' = (clean /\ scen.stage \in {"ow", "oa", "oa?"})

Read ==
    /\ ~hung
    /\ steps > 0
    /\ steps' = steps - 1
    /\ UNCHANGED session
    /\ fh.type # "NONE"
    /\ LET r == read(eeprom, fh, EmptyBuf)
       IN  /\ buf' = r.buf
           /\ hung' = r.hang
    /\ errs' = ReadErrors(fh)
    /\ lastOp' = Op("read", fh.filename)
    /\ UNCHANGED <<eeprom, alloc_table, fh, scen, clean>>

Close ==
    /\ ~hung
    /\ steps > 0
    /\ steps' = steps - 1
    /\ session' = IF fh.type \notin {"FH_WRITE", "FH_APPEND"} THEN session
                   ELSE IF session = "open" THEN "none" ELSE "misuse"
    /\ fh.type # "NONE"
    /\ LET c == close(eeprom, alloc_table, fh)
       IN  /\ eeprom' = c.mem
           /\ alloc_table' = c.tab
           /\ fh' = c.fh
           /\ hung' = c.hang
    /\ buf' = EmptyBuf
    /\ errs' = CloseErrors(eeprom, alloc_table, fh)
    /\ lastOp' = Op("close", fh.filename)
    /\ scen' = IF scen.stage = "w" THEN [scen EXCEPT !.stage = "wc"]
               ELSE IF scen.stage = "aw" THEN [scen EXCEPT !.stage = "awc"]
               ELSE NoScen
    /\ clean' = (clean /\ scen.stage \in {"w", "aw", "aw?"})

Delete(n) ==
    /\ ~hung
    /\ steps > 0
    /\ steps' = steps - 1
    /\ UNCHANGED session
    /\ LET d == delete(eeprom, alloc_table, n)
       IN  /\ eeprom' = d.mem
           /\ alloc_table' = d.tab
           /\ hung' = d.hang
    /\ buf' = EmptyBuf
    /\ errs' = DeleteErrors(alloc_table, n)
    /\ lastOp' = Op("delete", n)
    /\ scen' = NoScen
    /\ clean' = (clean /\ ~Pending)
    /\ UNCHANGED fh

FormatModes == {"FORMAT_FULL", "FORMAT_QUICK", "FORMAT_WIPE"}

Format(f) ==
    /\ ~hung
    /\ steps > 0
    /\ steps' = steps - 1
    /\ UNCHANGED session
    /\ eeprom' = format_eepromfs(eeprom, f)
    /\ alloc_table' = FormattedTable
    /\ buf' = EmptyBuf
    /\ errs' = {}
    /\ lastOp' = Op(f, 0)
    /\ scen' = NoScen
    /\ clean' = (clean /\ ~Pending)
    /\ UNCHANGED <<fh, hung>>

\* every name, payload and format mode, MaxOps calls deep
Next ==
    \/ \E n \in 0 .. MaxName : OpenForWrite(n)
    \/ \E n \in 0 .. MaxName : OpenForAppend(n)
    \/ \E n \in 0 .. MaxName : OpenForRead(n)
    \/ \E t \in 1 .. NumTags, l \in 0 .. MaxLen, g \in GarbageBytes : Write(Payload(t, l), g)
    \/ Read
    \/ Close
    \/ \E n \in 0 .. MaxName : Delete(n)
    \/ \E f \in FormatModes : Format(f)

Spec == Init /\ [][Next]_vars

\* the names that are file names as given, payloads of one tag up to
\* MaxSeqLen cells, no format: MaxSeqOps calls deep
InitSeq ==
    /\ eeprom = init_eepromfs(BlankEeprom)
    /\ alloc_table = StoredTable(init_eepromfs(BlankEeprom))
    /\ fh = NoHandle
    /\ buf = EmptyBuf
    /\ hung = FALSE
    /\ errs = {}
    /\ lastOp = Op("init", 0)
    /\ scen = NoScen
    /\ clean = TRUE
    /\ session = "none"
    /\ steps = MaxSeqOps

NextSeq ==
    \/ \E n \in Files : OpenForWrite(n)
    \/ \E n \in Files : OpenForAppend(n)
    \/ \E n \in Files : OpenForRead(n)
    \/ \E l \in 0 .. MaxSeqLen, g \in GarbageBytes : Write(Payload(1, l), g)
    \/ Read
    \/ Close
    \/ \E n \in Files : Delete(n)

SpecSeq == InitSeq /\ [][NextSeq]_vars

\* one name, a short and a cap-sized payload, the write sessions only:
\* MaxOneOps calls deep
OneLens == {1, EEPROM_FS_MAX_BLOCKS_PER_FILE * EEPROM_FS_BLOCK_DATA_SIZE}

InitOne ==
    /\ eeprom = init_eepromfs(BlankEeprom)
    /\ alloc_table = StoredTable(init_eepromfs(BlankEeprom))
    /\ fh = NoHandle
    /\ buf = EmptyBuf
    /\ hung = FALSE
    /\ errs = {}
    /\ lastOp = Op("init", 0)
    /\ scen = NoScen
    /\ clean = TRUE
    /\ session = "none"
    /\ steps = MaxOneOps

NextOne ==
    \/ OpenForWrite(0)
    \/ OpenForAppend(0)
    \/ \E l \in OneLens : Write(Payload(1, l), 0)
    \/ Close

SpecOne == InitOne /\ [][NextOne]_vars

\* ------------------------------------------------------- power loss, restart
\* Power is lost inside close(fh), after link() has mirrored the file's entry
\* and the sentinel and before relink(fh->last_block, NULL_PTR); the program
\* restarts and runs init_eepromfs().
CrashInClose ==
    /\ ~hung
    /\ steps > 0
    /\ steps' = steps - 1
    /\ session' = IF session = "misuse" THEN "misuse" ELSE "none"
    /\ fh.type \in {"FH_WRITE", "FH_APPEND"}
    /\ ~(fh.type = "FH_APPEND"
           /\ alloc_table[fh.filename].filesize > EEPROM_FS_BLOCK_DATA_SIZE)
    /\ ValidBlock(fh.first_block)
    /\ ~CloseBody(eeprom, alloc_table, fh).hang
    /\ eeprom' = init_eepromfs(CloseBody(eeprom, alloc_table, fh).mem)
    /\ alloc_table' = StoredTable(eeprom')
    /\ fh' = NoHandle
    /\ buf' = EmptyBuf
    /\ errs' = {}
    /\ lastOp' = Op("crash_in_close", fh.filename)
    /\ scen' = IF scen.stage = "w" THEN [scen EXCEPT !.stage = "w-crash"] ELSE NoScen
    /\ clean' = clean
    /\ UNCHANGED hung

\* Power is cycled between two calls; the program restarts and runs
\* init_eepromfs().
Restart ==
    /\ ~hung
    /\ steps > 0
    /\ steps' = steps - 1
    /\ session' = IF session = "misuse" THEN "misuse" ELSE "none"
    /\ eeprom' = init_eepromfs(eeprom)
    /\ alloc_table' = StoredTable(eeprom')
    /\ fh' = NoHandle
    /\ buf' = EmptyBuf
    /\ errs' = {}
    /\ lastOp' = Op("restart", 0)
    /\ scen' = NoScen
    /\ clean' = (clean /\ ~Pending)
    /\ UNCHANGED hung

InitCrash ==
    /\ eeprom = init_eepromfs(BlankEeprom)
    /\ alloc_table = StoredTable(init_eepromfs(BlankEeprom))
    /\ fh = NoHandle
    /\ buf = EmptyBuf
    /\ hung = FALSE
    /\ errs = {}
    /\ lastOp = Op("init", 0)
    /\ scen = NoScen
    /\ clean = TRUE
    /\ session = "none"
    /\ steps = MaxCrashOps

NextCrash ==
    \/ \E n \in 0 .. MaxName : OpenForWrite(n)
    \/ \E n \in 0 .. MaxName : OpenForAppend(n)
    \/ \E n \in 0 .. MaxName : OpenForRead(n)
    \/ \E t \in 1 .. NumTags, l \in 0 .. MaxLen, g \in GarbageBytes : Write(Payload(t, l), g)
    \/ Read
    \/ Close
    \/ \E n \in 0 .. MaxName : Delete(n)
    \/ CrashInClose
    \/ Restart

SpecCrash == InitCrash /\ [][NextCrash]_vars

\* Power is lost inside delete(n), after unlink() has written the next_block
\* of the free chain's last block and before the entry is mirrored; the
\* program restarts and runs init_eepromfs().
CrashInDelete(n) ==
    /\ ~hung
    /\ steps > 0
    /\ steps' = steps - 1
    /\ session' = IF session = "misuse" THEN "misuse" ELSE "none"
    /\ ValidBlock(alloc_table[FoldDelete(n)].data_block)
    /\ ~unlink(eeprom, alloc_table, alloc_table[FoldDelete(n)].data_block).hang
    /\ eeprom' = init_eepromfs(
                    unlink(eeprom, alloc_table, alloc_table[FoldDelete(n)].data_block).mem)
    /\ alloc_table' = StoredTable(eeprom')
    /\ fh' = NoHandle
    /\ buf' = EmptyBuf
    /\ errs' = {}
    /\ lastOp' = Op("crash_in_delete", n)
    /\ scen' = NoScen
    /\ clean' = (clean /\ ~Pending)
    /\ UNCHANGED hung

\* one name, a short and a cap-sized payload, write sessions, delete, format
\* and power cycles: MaxPowerOps calls deep
InitPower ==
    /\ eeprom = init_eepromfs(BlankEeprom)
    /\ alloc_table = StoredTable(init_eepromfs(BlankEeprom))
    /\ fh = NoHandle
    /\ buf = EmptyBuf
    /\ hung = FALSE
    /\ errs = {}
    /\ lastOp = Op("init", 0)
    /\ scen = NoScen
    /\ clean = TRUE
    /\ session = "none"
    /\ steps = MaxPowerOps

NextPower ==
    \/ OpenForWrite(0)
    \/ OpenForAppend(0)
    \/ \E l \in OneLens : Write(Payload(1, l), 0)
    \/ Close
    \/ Delete(0)
    \/ CrashInDelete(0)
    \/ Restart
    \/ \E f \in FormatModes : Format(f)

SpecPower == InitPower /\ [][NextPower]_vars

\* both file names, payloads of one cell, of a block and a half, of the cap
\* and of one cell more, whole-file writes, delete and restart: MaxTwoOps
\* calls deep
TwoLens ==
    {1, EEPROM_FS_BLOCK_DATA_SIZE + 1,
     EEPROM_FS_MAX_BLOCKS_PER_FILE * EEPROM_FS_BLOCK_DATA_SIZE,
     EEPROM_FS_MAX_BLOCKS_PER_FILE * EEPROM_FS_BLOCK_DATA_SIZE + 1}
InitTwo ==
    /\ eeprom = init_eepromfs(BlankEeprom)
    /\ alloc_table = StoredTable(init_eepromfs(BlankEeprom))
    /\ fh = NoHandle
    /\ buf = EmptyBuf
    /\ hung = FALSE
    /\ errs = {}
    /\ lastOp = Op("init", 0)
    /\ scen = NoScen
    /\ clean = TRUE
    /\ session = "none"
    /\ steps = MaxTwoOps

NextTwo ==
    \/ \E n \in Files : OpenForWrite(n)
    \/ \E l \in TwoLens : Write(Payload(1, l), 0)
    \/ Close
    \/ \E n \in Files : Delete(n)
    \/ Restart

SpecTwo == InitTwo /\ [][NextTwo]_vars

\* ------------------------------------------------------------------ claims
NullEntry == [filesize |-> 0, data_block |-> NULL_PTR]
FileCap == EEPROM_FS_MAX_BLOCKS_PER_FILE * EEPROM_FS_BLOCK_DATA_SIZE

\* what open_for_read(k); read(buf) yields in a state, for a name k that the
\* open leaves as it is
ReadOf(mem, tab, k) == read(mem, open_for_read(tab, k), EmptyBuf)
\* the first n cells of a buffer
Prefix(b, n) == [i \in 1 .. n |-> b[i - 1]]
\* no handle holds blocks it pulled and did not commit
Quiescent == clean /\ ~Pending /\ ~hung

\* C1 (Partition): between sessions (every handle so far written once and
\* closed), every LBA is reachable from exactly one chain root: one file
\* entry or the free-chain sentinel.
C1_Partition == Quiescent => Partition(eeprom, alloc_table)

\* C2 (Round trip): after open_for_write(name); write(p); close with name in
\* [0, MAX_FILES), |p| within the per-file cap and enough free blocks,
\* open_for_read(name); read yields filesize = |p| and the bytes of p.
C2_RoundTrip ==
    (clean /\ ~hung /\ scen.stage = "wc" /\ scen.name \in Files
        /\ Len(scen.a) <= FileCap /\ scen.room)
    => /\ open_for_read(alloc_table, scen.name).filesize = Len(scen.a)
       /\ ~ReadOf(eeprom, alloc_table, scen.name).hang
       /\ Prefix(ReadOf(eeprom, alloc_table, scen.name).buf, Len(scen.a)) = scen.a

\* C3 (Append concatenation): after open_for_write; write(a); close;
\* open_for_append; write(b); close on one name, |a| + |b| within the cap,
\* open_for_read; read yields a ++ b in the first |a| + |b| cells.
C3_AppendConcat ==
    (clean /\ ~hung /\ scen.stage = "awc" /\ scen.name \in Files
        /\ Len(scen.a) + Len(scen.b) <= FileCap /\ scen.room)
    => /\ ~ReadOf(eeprom, alloc_table, scen.name).hang
       /\ Prefix(ReadOf(eeprom, alloc_table, scen.name).buf,
                 Len(scen.a) + Len(scen.b)) = scen.a \o scen.b

\* C4 (Size/length agreement): between sessions, the chain of every present
\* file ends in NULL_PTR and has ceil(filesize / BLOCK_DATA_SIZE) blocks.
C4_SizeLength ==
    Quiescent =>
        \A f \in Files :
            alloc_table[f].data_block # NULL_PTR =>
                /\ Terminates(eeprom, alloc_table[f].data_block)
                /\ Len(ChainSeq(eeprom, alloc_table[f].data_block))
                     = BlocksFor(alloc_table[f].filesize)

\* the cells of file g that a reader gets, with its entry
Readable(mem, tab, g) ==
    [entry |-> tab[g],
     cells |-> IF Terminates(mem, tab[g].data_block)
               THEN Prefix(ReadOf(mem, tab, g).buf, Min(tab[g].filesize, BufLenOf))
               ELSE <<>>]

\* C5 (Delete isolates): delete(n) leaves the cached and the persisted entry
\* of f = n mod MAX_FILES as {0, null}, open_for_read(f) then reports
\* FileNotFound, and no other file's cached entry, persisted entry or
\* readable content changes.
C5_DeleteIsolates ==
    [][(lastOp'.op = "delete" /\ ~hung') =>
        LET f == lastOp'.name % EEPROM_FS_MAX_FILES
        IN  /\ alloc_table'[f] = NullEntry
            /\ StoredAlloc(eeprom', f) = NullEntry
            /\ open_for_read(alloc_table', f).first_block = NULL_PTR
            /\ "FileNotFound" \in OpenErrors(open_for_read(alloc_table', f))
            /\ \A g \in Files \ {f} :
                  /\ alloc_table'[g] = alloc_table[g]
                  /\ StoredAlloc(eeprom', g) = StoredAlloc(eeprom, g)
                  /\ Readable(eeprom', alloc_table', g) = Readable(eeprom, alloc_table, g)
      ]_vars

\* C6 (Name folding): an open call given the name n returns the handle the
\* same call returns for n mod MAX_FILES, whose filename is in [0, MAX_FILES).
C6_NameFolding ==
    LET n == lastOp.name % EEPROM_FS_MAX_FILES
    IN  /\ lastOp.op = "open_for_write" => fh = open_for_write(n)
        /\ lastOp.op = "open_for_append" => fh = open_for_append(alloc_table, n)
        /\ lastOp.op = "open_for_read" => fh = open_for_read(alloc_table, n)
        /\ lastOp.op \in {"open_for_write", "open_for_append", "open_for_read"}
              => fh.filename \in Files

\* C7 (Cap enforcement): a write of more than MAX_BLOCKS_PER_FILE *
\* BLOCK_DATA_SIZE cells to a fresh name reports Truncated; after close the
\* file's size is the cap and a read yields the first cap cells of the payload.
C7_CapEnforced ==
    /\ (~hung /\ scen.stage = "w" /\ scen.name \in Files /\ scen.fresh
          /\ scen.room /\ Len(scen.a) > FileCap)
       => "Truncated" \in errs
    /\ (~hung /\ scen.stage = "wc" /\ scen.name \in Files /\ scen.fresh
          /\ scen.room /\ Len(scen.a) > FileCap)
       => /\ alloc_table[scen.name].filesize = FileCap
          /\ Prefix(ReadOf(eeprom, alloc_table, scen.name).buf, FileCap)
               = SubSeq(scen.a, 1, FileCap)

\* the entry of name k, cached and persisted, the blocks of its chain as
\* stored, and what a read of it yields
FileView(mem, tab, k) ==
    [cached |-> tab[k],
     stored |-> StoredAlloc(mem, k),
     chain |-> [i \in 1 .. Len(ChainSeq(mem, tab[k].data_block)) |->
                  LET b == ChainSeq(mem, tab[k].data_block)[i]
                  IN  <<b, NextOf(mem, b), DataOf(mem, b)>>],
     read |-> IF Terminates(mem, tab[k].data_block)
              THEN ReadOf(mem, tab, k).buf ELSE EmptyBuf]

\* C8 (Rollback when not closed): open_for_write, open_for_append and write
\* on a handle of a name in [0, MAX_FILES) that is open (no call so far
\* was a write or a close on a closed handle) leave the entry of that name
\* (cached and persisted), the blocks of its chain and what a read of it
\* yields as they were.
C8_NoCommitBeforeClose ==
    [][(lastOp'.op \in {"open_for_write", "open_for_append", "write"}
          /\ session' = "open" /\ fh'.filename \in Files /\ ~hung')
        => FileView(eeprom', alloc_table', fh'.filename)
             = FileView(eeprom, alloc_table, fh'.filename)
      ]_vars

\* C9 (Cache coherence): between two calls, once every handle opened so far
\* has been written and closed, every entry of the cached allocation table,
\* the sentinel included, equals the persisted entry.
C9_CacheCoherent == Quiescent => alloc_table = StoredTable(eeprom)

\* C10 (Crash in close): power lost in close after link and before the final
\* relink, on a handle written once to a fresh name when the partition held:
\* after init every LBA is reachable from exactly one chain root.
C10_CrashInClosePartition ==
    (scen.stage = "w-crash" /\ scen.name \in Files /\ scen.fresh /\ scen.part)
    => Partition(eeprom, alloc_table)

\* no block is reachable from a file entry and from the free-chain sentinel
NoSharedBlock(mem, tab) ==
    \A f \in Files :
        ChainSet(mem, tab[f].data_block) \cap ChainSet(mem, FreeHead(tab)) = {}

\* C11 (Crash in delete): power lost in delete(f) of a present file after
\* unlink and before the entry is mirrored, in a state where the partition
\* held and the cached table equalled the persisted one: after init no block
\* is reachable from both a file entry and the free-chain sentinel.
C11_CrashInDelete ==
    [][(lastOp'.op = "crash_in_delete" /\ Partition(eeprom, alloc_table)
          /\ alloc_table = StoredTable(eeprom))
        => NoSharedBlock(eeprom', alloc_table')
      ]_vars

\* C12 (Format idempotence): in the state a format(QUICK) leaves, a second
\* format(QUICK) changes nothing: every block's next pointer and payload, the
\* persisted table and the metadata header stay as they are, and the cached
\* table is the one the first format set.
C12_FormatIdempotent ==
    lastOp.op = "FORMAT_QUICK" =>
        /\ format_eepromfs(eeprom, "FORMAT_QUICK") = eeprom
        /\ FormattedTable = alloc_table

\* a quick format has run over a medium that holds written payload
C12_Witness ==
    /\ lastOp.op = "FORMAT_QUICK"
    /\ \E b \in Blocks : DataOf(eeprom, b)[1] = Payload(1, 1)[1]

\* C13 (Format post-state): a format in any mode leaves every file entry
\* {0, null}, the sentinel at NUM_BLOCKS - 1, block i linked to i - 1 (the free
\* chain NUM_BLOCKS - 1, ..., 0), the persisted table equal to the cached one
\* and the stored metadata equal to the compiled configuration; FULL leaves
\* every payload zero and QUICK leaves every payload as it was.
C13_FormatPostState ==
    [][lastOp'.op \in FormatModes =>
        /\ \A f \in Files : alloc_table'[f] = NullEntry
        /\ alloc_table'[EEPROM_FS_MAX_FILES].data_block = EEPROM_FS_NUM_BLOCKS - 1
        /\ \A i \in Blocks : NextOf(eeprom', i) = i - 1
        /\ ChainSeq(eeprom', FreeHead(alloc_table'))
             = [k \in 1 .. EEPROM_FS_NUM_BLOCKS |-> EEPROM_FS_NUM_BLOCKS - k]
        /\ StoredTable(eeprom') = alloc_table'
        /\ EepromRead(eeprom', EEPROM_FS_START + EEPROM_FS_META_OFFSET, SizeofMeta)
             = CompiledMeta
        /\ lastOp'.op = "FORMAT_FULL" =>
              \A i \in Blocks :
                 DataOf(eeprom', i) = [j \in 1 .. EEPROM_FS_BLOCK_DATA_SIZE |-> 0]
        /\ lastOp'.op = "FORMAT_QUICK" =>
              \A i \in Blocks : DataOf(eeprom', i) = DataOf(eeprom, i)
      ]_vars

\* a full format has run after a handle had written blocks
C13_Witness ==
    /\ lastOp.op = "FORMAT_FULL"
    /\ fh.type = "FH_WRITE"
    /\ ValidBlock(fh.last_block)

\* the stored metadata equals the compiled configuration
MetaMatches(mem) ==
    EepromRead(mem, EEPROM_FS_START + EEPROM_FS_META_OFFSET, SizeofMeta) = CompiledMeta

\* C14 (Init decision): init on a medium whose metadata differs in any one
\* field quick-formats it; a restart on a medium whose metadata matches
\* writes nothing, loads the persisted table, and every file present before
\* the restart (no handle open) reads with the same filesize and content.
C14_InitDecision ==
    [][(lastOp'.op = "restart" /\ session = "none") =>
        /\ \A k \in 0 .. (SizeofMeta - 1) :
              LET m == EepromWrite(eeprom, EEPROM_FS_START + EEPROM_FS_META_OFFSET + k,
                                   <<eeprom[EEPROM_FS_START + EEPROM_FS_META_OFFSET + k] + 1>>)
              IN  init_eepromfs(m) = format_eepromfs(m, "FORMAT_QUICK")
        /\ MetaMatches(eeprom) =>
              /\ eeprom' = eeprom
              /\ alloc_table' = StoredTable(eeprom)
              /\ \A f \in Files :
                    (ValidBlock(alloc_table[f].data_block)
                       /\ Terminates(eeprom, alloc_table[f].data_block)) =>
                        /\ open_for_read(alloc_table', f).filesize = alloc_table[f].filesize
                        /\ ReadOf(eeprom', alloc_table', f) = ReadOf(eeprom, alloc_table, f)
      ]_vars

\* C15 (Errors do not corrupt the invariants): a handle opened in a state
\* where I1-I5 held, whose write could not allocate what it needed
\* (OutOfRangeBlock or NoSpace), leaves I1-I5 holding after close.
C15_ErrorsKeepInvariants ==
    (~hung /\ clean /\ scen.stage \in {"wc", "awc"} /\ scen.name \in Files
        /\ scen.sound /\ scen.werr)
    => Sound(eeprom, alloc_table)

\* C16 (Committed size on append tail-merge): when a file of old_size cells,
\* 0 < old_size <= BLOCK_DATA_SIZE and old_size not a multiple of
\* BLOCK_DATA_SIZE, is appended n cells with room for the result, the entry's
\* filesize after close is old_size + n.
C16_TailMergeSize ==
    (~hung /\ clean /\ scen.stage = "awc" /\ scen.name \in Files
        /\ scen.fresh /\ scen.room
        /\ Len(scen.a) > 0 /\ Len(scen.a) <= EEPROM_FS_BLOCK_DATA_SIZE
        /\ CRem(Len(scen.a), EEPROM_FS_BLOCK_DATA_SIZE) # 0
        /\ Len(scen.a) + Len(scen.b) <= FileCap)
    => alloc_table[scen.name].filesize = Len(scen.a) + Len(scen.b)

\* C17 (Delete of an absent file is a no-op): delete of a name whose cached
\* entry has data_block = NULL_PTR changes no block, not the free chain, and
\* neither the cached nor the persisted allocation table.
C17_DeleteAbsentNoOp ==
    [][(lastOp'.op = "delete" /\ ~hung'
          /\ alloc_table[FoldDelete(lastOp'.name)].data_block = NULL_PTR)
       => (eeprom' = eeprom /\ alloc_table' = alloc_table)]_vars

\* C18 (Append commit for multi-block files): after open_for_append on a
\* file of more than BLOCK_DATA_SIZE cells, a write and close, the cached
\* and the persisted entry hold filesize = existing + written, the new run
\* is reachable from the file's first block and ends in NULL_PTR, and the
\* persisted sentinel holds the new free head.
C18_LongAppendCommit ==
    (~hung /\ clean /\ scen.stage = "awc" /\ scen.name \in Files
        /\ scen.fresh /\ scen.room
        /\ Len(scen.a) > EEPROM_FS_BLOCK_DATA_SIZE /\ Len(scen.b) > 0
        /\ Len(scen.a) + Len(scen.b) <= FileCap)
    => /\ alloc_table[scen.name].filesize = Len(scen.a) + Len(scen.b)
       /\ StoredTable(eeprom)[scen.name].filesize = Len(scen.a) + Len(scen.b)
       /\ fh.first_block \in ChainSet(eeprom, alloc_table[scen.name].data_block)
       /\ NextOf(eeprom, fh.last_block) = NULL_PTR
       /\ StoredTable(eeprom)[EEPROM_FS_MAX_FILES] = alloc_table[EEPROM_FS_MAX_FILES]

\* C19 (Per-file block cap): after any sequence of open_for_write,
\* open_for_append, write and close calls, no file's chain holds more than
\* MAX_BLOCKS_PER_FILE blocks and no entry's filesize exceeds
\* MAX_BLOCKS_PER_FILE * BLOCK_DATA_SIZE.
C19_BlockCap ==
    (~hung /\ session = "none" /\ lastOp.op = "close")
    => \A f \in Files :
          /\ alloc_table[f].filesize <= FileCap
          /\ Cardinality(ChainSet(eeprom, alloc_table[f].data_block))
                <= EEPROM_FS_MAX_BLOCKS_PER_FILE

\* the calls that work on a handle without committing it
HandleOps == {"open_for_write", "open_for_append", "open_for_read", "read", "write"}

\* C20 (Handle operations do not touch the RAM allocation table), as stated:
\* open_for_write, open_for_append, open_for_read, read and write leave
\* every entry of the cached table, the sentinel included, unchanged.
C20_HandlesLeaveTable ==
    [][(lastOp'.op \in HandleOps /\ session' = "open" /\ ~hung')
       => alloc_table' = alloc_table]_vars

\* C20, amended: the open calls and read leave every entry of the cached
\* table unchanged; write leaves every file entry, the sentinel's filesize
\* and the persisted table unchanged and advances the cached free head past
\* the blocks it stores, so that after a write that stored all its blocks the
\* head is the successor of the handle's last block.
C20_HandlesFrame ==
    [][/\ (lastOp'.op \in HandleOps \ {"write"}) => alloc_table' = alloc_table
       /\ lastOp'.op = "write"
            => /\ \A f \in Files : alloc_table'[f] = alloc_table[f]
               /\ alloc_table'[EEPROM_FS_MAX_FILES].filesize
                    = alloc_table[EEPROM_FS_MAX_FILES].filesize
               /\ StoredTable(eeprom') = StoredTable(eeprom)
               /\ (~hung' /\ errs' \cap ({"WriteToReadOnly"} \cup AllocErrors) = {})
                    => alloc_table'[EEPROM_FS_MAX_FILES].data_block
                         = NextOf(eeprom', fh'.last_block)]_vars

\* a write on an open handle has stored blocks and moved the cached free head
\* away from the persisted one
C20_Witness ==
    /\ lastOp.op = "write" /\ session = "open" /\ ~hung /\ errs = {}
    /\ ValidBlock(fh.last_block)
    /\ alloc_table[EEPROM_FS_MAX_FILES] # StoredTable(eeprom)[EEPROM_FS_MAX_FILES]

\* the positions of the mutations named op in a trace of close
OpsAt(t, op) == {i \in 1 .. Len(t) : t[i].op = op}

\* C21 (Commit order in close): in every close of a WRITE or APPEND handle
\* that has a written run, the write that sets the last block's next to
\* NULL_PTR is the last storage mutation of the call and comes after the
\* file's entry and the sentinel were mirrored (and, for an append to a file
\* of at most BLOCK_DATA_SIZE cells, after the old chain was unlinked).
C21_CommitOrder ==
    [][(lastOp'.op = "close" /\ session = "open" /\ ~hung'
          /\ fh.type \in {"FH_WRITE", "FH_APPEND"} /\ fh.filename \in Files
          /\ ValidBlock(fh.first_block) /\ ValidBlock(fh.last_block))
       => LET t == CloseTrace(eeprom, alloc_table, fh)
              old == alloc_table[fh.filename]
          IN  /\ t # <<>>
              /\ t[Len(t)].mem = eeprom'
              /\ OpsAt(t, "terminate") = {Len(t)}
              /\ OpsAt(t, "entry") # {}
              /\ OpsAt(t, "sentinel") # {}
              /\ (fh.type = "FH_APPEND" /\ old.filesize > 0
                    /\ old.filesize <= EEPROM_FS_BLOCK_DATA_SIZE)
                   => OpsAt(t, "unlink") # {}]_vars

\* the free chain as the sequence of blocks a walk from the cached head meets
FreeSeq(mem, tab) == ChainSeq(mem, FreeHead(tab))

\* the chain that close(h) releases: the old block of a file of at most
\* BLOCK_DATA_SIZE cells that is appended to
ReleasedByClose(mem, tab, h) ==
    IF h.type = "FH_APPEND" /\ tab[h.filename].filesize > 0
          /\ tab[h.filename].filesize <= EEPROM_FS_BLOCK_DATA_SIZE
    THEN ChainSeq(mem, tab[h.filename].data_block)
    ELSE <<>>

\* C22 (Free-chain rotation order): a write takes its blocks from the head of
\* the free chain, in chain order, and leaves the rest of the chain as it
\* was; delete and close attach the released chain after the tail of the
\* free chain and leave the blocks before it in place.  Hence a
\* freed block is handed out only after every block that was in the free
\* chain at the moment of the free.
C22_RotationOrder ==
    [][(~hung' /\ clean' /\ lastOp'.op \in {"write", "close", "delete"}
          /\ session = (IF lastOp'.op = "delete" THEN "none" ELSE "open"))
       => LET F == FreeSeq(eeprom, alloc_table)
              G == FreeSeq(eeprom', alloc_table')
              R == IF lastOp'.op = "delete"
                   THEN ChainSeq(eeprom, alloc_table[FoldDelete(lastOp'.name)].data_block)
                   ELSE ReleasedByClose(eeprom, alloc_table, fh)
          IN  /\ lastOp'.op = "write"
                   => \E k \in 0 .. Len(F) :
                         /\ G = SubSeq(F, k + 1, Len(F))
                         /\ k > 0 => /\ fh'.first_block = F[1]
                                      /\ fh'.last_block \in {F[k], NULL_PTR}
              /\ lastOp'.op \in {"close", "delete"}
                   => /\ Len(G) >= Min(Len(F \o R), EEPROM_FS_NUM_BLOCKS)
                      /\ \A i \in 1 .. Min(Len(F \o R), EEPROM_FS_NUM_BLOCKS) :
                            G[i] = (F \o R)[i]]_vars

\* the blocks the writes of handle h pulled: the run from h.first_block to
\* h.last_block, to the end of the chain when the free chain ran out
Pulled(mem, h) ==
    LET c == ChainSeq(mem, h.first_block)
        at == {i \in 1 .. Len(c) : c[i] = h.last_block}
    IN  {c[j] : j \in {i \in 1 .. Len(c) : \A k \in at : i <= k}}

\* power is lost right after the one write of a properly used handle that was
\* opened with the cached table equal to the persisted one, and init finds
\* the metadata it was compiled with
CrashAfterWrite ==
    /\ lastOp'.op = "restart" /\ lastOp.op = "write" /\ session = "open"
    /\ ~hung /\ clean /\ scen.stage \in {"w", "aw"} /\ scen.coh
    /\ ValidBlock(fh.first_block)

\* C23 (In-flight blocks after power loss), as stated: after a power loss
\* between a write and its close, and init, the blocks the write pulled are
\* in neither the free chain nor any file chain.
C23_InFlightOrphaned ==
    [][CrashAfterWrite
       => /\ Pulled(eeprom, fh) \cap ChainSet(eeprom', FreeHead(alloc_table')) = {}
          /\ \A f \in Files :
                Pulled(eeprom, fh) \cap ChainSet(eeprom', alloc_table'[f].data_block) = {}]_vars

\* C23, amended: write changes neither a next field nor the persisted
\* allocation table, and init after a power loss loads the persisted table
\* and leaves the medium alone.  So after a power loss between a write and
\* its close, and init, the blocks of a write that started with the cached
\* table equal to the persisted one are in the free chain again, from its
\* head on, and, when the partition held before the write, in no file chain.
C23_InFlightStillFree ==
    [][/\ (lastOp'.op = "write" /\ ~hung')
            => /\ \A b \in Blocks : NextOf(eeprom', b) = NextOf(eeprom, b)
               /\ StoredTable(eeprom') = StoredTable(eeprom)
       /\ (lastOp'.op = "restart" /\ MetaMatches(eeprom))
            => /\ eeprom' = eeprom
               /\ alloc_table' = StoredTable(eeprom)
       /\ CrashAfterWrite
            => /\ FreeHead(alloc_table') = fh.first_block
               /\ Pulled(eeprom, fh) \subseteq ChainSet(eeprom', FreeHead(alloc_table'))
               /\ scen.part
                    => \A f \in Files :
                          Pulled(eeprom, fh)
                            \cap ChainSet(eeprom', alloc_table'[f].data_block) = {}]_vars

\* init has run after a power loss that followed a write of an open handle:
\* the cached head is back at a block the handle had pulled
C23_Witness ==
    /\ lastOp.op = "restart" /\ session = "none" /\ ~hung
    /\ FreeHead(alloc_table) = EEPROM_FS_NUM_BLOCKS - 1
    /\ \E j \in 1 .. EEPROM_FS_BLOCK_DATA_SIZE :
          DataOf(eeprom, EEPROM_FS_NUM_BLOCKS - 1)[j] = Payload(1, 1)[1]
    /\ \A f \in Files : alloc_table[f].data_block = NULL_PTR

\* the cells of the table region whose stored value differs between two media
TableDiff(pre, post) == {a \in TableRegion : pre[a] # post[a]}

\* C24 (Update-not-write, P8): the mirrors of allocation-table entries in
\* format, link and delete program exactly the table cells whose persisted
\* value differs from the cached one, so mirroring an entry whose persisted
\* cells equal the cached ones (delete of an absent file, a repeated close of
\* a committed handle) programs no cell of the allocation-table region.
C24_UpdateNotWrite ==
    [][/\ (lastOp'.op = "delete" /\ ~hung')
            => LET fn == FoldDelete(lastOp'.name)
                   pre == DeleteMirrorMem(eeprom, alloc_table, lastOp'.name)
                   W == DeleteWritten(eeprom, alloc_table, lastOp'.name)
               IN  /\ W = TableDiff(pre, eeprom')
                   /\ StoredAlloc(pre, fn) = alloc_table'[fn] => W = {}
       /\ (lastOp'.op = "close" /\ ~hung'
              /\ CloseLinkCall(eeprom, alloc_table, fh).called)
            => LET c == CloseLinkCall(eeprom, alloc_table, fh)
                   fn == fh.filename % EEPROM_FS_MAX_FILES
                   W == LinkWritten(c.mem, alloc_table, c.fh)
               IN  /\ W = TableDiff(c.mem, eeprom')
                   /\ (StoredAlloc(c.mem, fn) = alloc_table'[fn]
                         /\ StoredAlloc(c.mem, EEPROM_FS_MAX_FILES)
                              = alloc_table'[EEPROM_FS_MAX_FILES])
                        => W = {}
       /\ lastOp'.op \in FormatModes
            => FormatWritten(eeprom, lastOp'.op)
                 = TableDiff(FormatMirrorMem(eeprom, lastOp'.op), eeprom')]_vars

\* a delete of an absent file has run on a medium that holds a file
C24_Witness ==
    /\ lastOp.op = "delete" /\ ~hung /\ errs = {"OutOfRangeBlock"}
    /\ \E b \in Blocks : DataOf(eeprom, b)[1] = Payload(1, 1)[1]

\* the addresses of the next fields of the valid blocks
NextCells == {get_block_pointer(b) : b \in Blocks}

\* C25 (Reclaim with an empty free chain): when the cached free head is
\* NULL_PTR, delete of a present file and the close of an append that
\* unlinks the old chain return the released blocks to the free chain: the
\* free head is a block afterwards, the free chain holds exactly the
\* released blocks, and nothing but next fields of valid blocks and the
\* mirrored entries was written.
C25_ReclaimWhenEmpty ==
    [][(~hung' /\ clean' /\ FreeHead(alloc_table) = NULL_PTR
          /\ \/ /\ lastOp'.op = "delete" /\ session = "none"
                /\ ValidBlock(alloc_table[FoldDelete(lastOp'.name)].data_block)
             \/ /\ lastOp'.op = "close" /\ session = "open"
                /\ fh.filename \in Files
                /\ ReleasedByClose(eeprom, alloc_table, fh) # <<>>)
       => LET R == IF lastOp'.op = "delete"
                   THEN ChainSet(eeprom, alloc_table[FoldDelete(lastOp'.name)].data_block)
                   ELSE {ReleasedByClose(eeprom, alloc_table, fh)[i] :
                           i \in 1 .. Len(ReleasedByClose(eeprom, alloc_table, fh))}
              fn == IF lastOp'.op = "delete" THEN FoldDelete(lastOp'.name)
                    ELSE fh.filename
          IN  /\ ValidBlock(FreeHead(alloc_table'))
              /\ ChainSet(eeprom', FreeHead(alloc_table')) = R
              /\ \A a \in Addr :
                    eeprom'[a] # eeprom[a]
                      => a \in NextCells
                            \cup AllocOffset(fn) .. (AllocOffset(fn) + SizeofFileAlloc - 1)
                            \cup AllocOffset(EEPROM_FS_MAX_FILES)
                                   .. (AllocOffset(EEPROM_FS_MAX_FILES) + SizeofFileAlloc - 1)]_vars

\* C26 (Chains stay acyclic): after any sequence of API calls in which
\* every write and close has an open handle, no call has failed to return,
\* and the walk from every file entry's first block and from the sentinel
\* reaches NULL_PTR within NUM_BLOCKS steps.
C26_ChainsAcyclic ==
    session # "misuse"
    => /\ ~hung
       /\ \A e \in Entries :
             /\ Terminates(eeprom, alloc_table[e].data_block)
             /\ Len(ChainSeq(eeprom, alloc_table[e].data_block)) <= EEPROM_FS_NUM_BLOCKS
             /\ \A i, j \in 1 .. Len(ChainSeq(eeprom, alloc_table[e].data_block)) :
                   ChainSeq(eeprom, alloc_table[e].data_block)[i]
                     = ChainSeq(eeprom, alloc_table[e].data_block)[j] => i = j
====
